---------------------------- MODULE Spec2Model ----------------------------
(***************************************************************************)
(* A model of src/app.py: the Streamlit PDF extractor built on the         *)
(* Tensorlake DocumentAI client.                                           *)
(*                                                                         *)
(* Python strings are sequences of one-character strings, so that          *)
(* str.strip, str.lower, str.replace, int() and f-string formatting are    *)
(* computed character by character as the interpreter computes them.       *)
(*                                                                         *)
(* Three specifications share the module:                                  *)
(*   SpecHeaders  applies fix_duplicate_headers to bounded header lists;   *)
(*   SpecRecords  applies html_table_to_objects to bounded <table>s;       *)
(*   Spec         is the script itself, rerun after rerun in one session.  *)
(***************************************************************************)
EXTENDS Integers, Sequences, FiniteSets, TLC

VARIABLES
    \* ---- the session and one script run (Spec) ----
    pc,                     \* position of the script run
    session_state,          \* st.session_state, a dict
    run_button,             \* st.button("Start Parsing") of this rerun
    uploaded_pdf,           \* st.file_uploader(...) of this rerun: <<>> is None
    files,                  \* the temporary files that exist on disk
    temp_pdf_path,          \* tmp.name, <<>> while unassigned
    file_id,                \* upload_file_v2's return value, <<>> while unassigned
    result,                 \* doc_ai.parse_and_wait's return value, <<>> while unassigned
    i,                      \* the page loop's index (pages split so far)
    full_text_output,
    full_text_with_tables,
    all_tables_json,
    pages,
    shown,                  \* what this rerun put on the page: st.error's and renderings
    outcome,                \* how the run ended: "" | "end" | "stop" | "exception"
    state_at_start,         \* session_state as this rerun found it
    calls,                  \* the remote calls this rerun made
    \* ---- the helper functions called on their own ----
    called,                 \* which helper has been applied: "" before the call
    headers, fixed,         \* fix_duplicate_headers: argument and return value
    table, objects          \* html_table_to_objects: argument and return value

runVars == <<pc, session_state, run_button, uploaded_pdf, files, temp_pdf_path,
             file_id, result, i, full_text_output, full_text_with_tables,
             all_tables_json, pages, shown, outcome, state_at_start, calls>>
helperVars == <<called, headers, fixed, table, objects>>
vars == <<runVars, helperVars>>

---------------------------------------------------------------------------
(* Bounds of the model.                                                    *)

MaxHeaders == 4     \* longest header list given to fix_duplicate_headers
MaxCols == 2        \* widest row of a <table> given to html_table_to_objects
MaxDataRows == 2    \* most data rows of such a <table>
MaxPages == 2       \* most chunks of a parse result

---------------------------------------------------------------------------
(* Python values.                                                          *)

None == <<>>
Some(x) == <<x>>
IsNone(o) == o = <<>>
The(o) == o[1]

\* The sequences over S of length at most n.
SeqsUpTo(S, n) == UNION {[1..m -> S] : m \in 0..n}

\* A JSON-serialisable cell value: an int, a str or None.
IntVal(n) == [t |-> "int", n |-> n]
StrVal(s) == [t |-> "str", s |-> s]
NoneVal == [t |-> "None"]

EmptyDict == [k \in {} |-> NoneVal]
\* d[k] = v on a dict
DictSet(d, k, v) == [x \in DOMAIN d \cup {k} |-> IF x = k THEN v ELSE d[x]]

---------------------------------------------------------------------------
(* Python str operations, on sequences of characters.                      *)

Whitespace == {" ", "\n", "\t"}
Digits == <<"0", "1", "2", "3", "4", "5", "6", "7", "8", "9">>
UpperCase == <<"A", "B", "C", "D", "E", "F", "G", "H", "I", "J", "K", "L", "M",
               "N", "O", "P", "Q", "R", "S", "T", "U", "V", "W", "X", "Y", "Z">>
LowerCase == <<"a", "b", "c", "d", "e", "f", "g", "h", "i", "j", "k", "l", "m",
               "n", "o", "p", "q", "r", "s", "t", "u", "v", "w", "x", "y", "z">>

IsDigit(c) == \E d \in DOMAIN Digits : Digits[d] = c
DigitValue(c) == (CHOOSE d \in DOMAIN Digits : Digits[d] = c) - 1

\* str.lower()
LowerChar(c) ==
    IF \E u \in DOMAIN UpperCase : UpperCase[u] = c
    THEN LowerCase[CHOOSE u \in DOMAIN UpperCase : UpperCase[u] = c]
    ELSE c
Lower(s) == [k \in DOMAIN s |-> LowerChar(s[k])]

\* str.strip(): leading and trailing whitespace removed
RECURSIVE LStrip(_)
LStrip(s) == IF s # <<>> /\ Head(s) \in Whitespace THEN LStrip(Tail(s)) ELSE s
RECURSIVE RStrip(_)
RStrip(s) ==
    IF s # <<>> /\ s[Len(s)] \in Whitespace
    THEN RStrip(SubSeq(s, 1, Len(s) - 1))
    ELSE s
Strip(s) == RStrip(LStrip(s))

\* str.replace(old, "") for a one-character old
RECURSIVE Remove(_, _)
Remove(s, old) ==
    IF s = <<>> THEN <<>>
    ELSE IF Head(s) = old THEN Remove(Tail(s), old)
    ELSE <<Head(s)>> \o Remove(Tail(s), old)

\* str(n) for an int n >= 0, as an f-string formats it
RECURSIVE IntToStr(_)
IntToStr(n) ==
    IF n < 10 THEN <<Digits[n + 1]>>
    ELSE IntToStr(n \div 10) \o <<Digits[(n % 10) + 1]>>

---------------------------------------------------------------------------
(* fix_duplicate_headers (src/app.py 72-83)                                *)

\* key = h if h.strip() else "col"
HeaderKey(h) == IF Strip(h) # <<>> THEN h ELSE <<"c", "o", "l">>

\* One pass of `for h in headers`, from position k on.
RECURSIVE FixLoop(_, _, _, _)
FixLoop(hs, k, seen, out) ==
    IF k > Len(hs) THEN out
    ELSE LET key == HeaderKey(hs[k]) IN
         IF key \notin DOMAIN seen
         THEN FixLoop(hs, k + 1, DictSet(seen, key, 1), Append(out, key))
         ELSE LET n == seen[key] + 1 IN
              FixLoop(hs, k + 1, DictSet(seen, key, n),
                      Append(out, key \o <<"_">> \o IntToStr(n)))

\* A slip: the first occurrence is counted as 0, so the second is "_1".
RECURSIVE FixLoopFromZero(_, _, _, _)
FixLoopFromZero(hs, k, seen, out) ==
    IF k > Len(hs) THEN out
    ELSE LET key == HeaderKey(hs[k]) IN
         IF key \notin DOMAIN seen
         THEN FixLoopFromZero(hs, k + 1, DictSet(seen, key, 0), Append(out, key))
         ELSE LET n == seen[key] + 1 IN
              FixLoopFromZero(hs, k + 1, DictSet(seen, key, n),
                              Append(out, key \o <<"_">> \o IntToStr(n)))
fix_duplicate_headers_from_zero(hs) == FixLoopFromZero(hs, 1, EmptyDict, <<>>)

fix_duplicate_headers(hs) == FixLoop(hs, 1, EmptyDict, <<>>)

---------------------------------------------------------------------------
(* clean_number (src/app.py 65-69)                                         *)

\* int(s) accepts: optional surrounding whitespace, an optional sign, then
\* decimal digits in which single underscores may separate digits.
IntBody(s) ==
    LET t == Strip(s) IN
    IF t # <<>> /\ t[1] \in {"+", "-"} THEN Tail(t) ELSE t
IntNegative(s) == LET t == Strip(s) IN t # <<>> /\ t[1] = "-"
IntParses(s) ==
    LET b == IntBody(s) IN
    /\ b # <<>>
    /\ \A k \in DOMAIN b : IsDigit(b[k]) \/ b[k] = "_"
    /\ IsDigit(b[1]) /\ IsDigit(b[Len(b)])
    /\ \A k \in 1..(Len(b) - 1) : ~(b[k] = "_" /\ b[k + 1] = "_")
RECURSIVE DigitsValue(_, _)
DigitsValue(b, acc) ==
    IF b = <<>> THEN acc
    ELSE IF Head(b) = "_" THEN DigitsValue(Tail(b), acc)
    ELSE DigitsValue(Tail(b), 10 * acc + DigitValue(Head(b)))
IntOf(s) == IF IntNegative(s) THEN 0 - DigitsValue(IntBody(s), 0)
            ELSE DigitsValue(IntBody(s), 0)

\* A slip: the except branch returns the comma-stripped text.
clean_number_keeps_stripped(value) ==
    LET r == Remove(value, ",") IN
    IF IntParses(r) THEN IntVal(IntOf(r)) ELSE StrVal(r)

clean_number(value) ==
    LET r == Remove(value, ",") IN
    IF IntParses(r) THEN IntVal(IntOf(r)) ELSE StrVal(value)

---------------------------------------------------------------------------
(* html_table_to_matrix (src/app.py 86-88)                                 *)
(* A <table> is the sequence of its <tr>, a <tr> the sequence of the raw   *)
(* texts of its <td>/<th>; get_text(strip=True) strips each.               *)

html_table_to_matrix(tbl) ==
    [r \in DOMAIN tbl |-> [c \in DOMAIN tbl[r] |-> Strip(tbl[r][c])]]

---------------------------------------------------------------------------
(* html_table_to_objects (src/app.py 91-115)                               *)

Min(a, b) == IF a < b THEN a ELSE b
Max(a, b) == IF a < b THEN b ELSE a
CellOr(row, k) == IF k \in DOMAIN row THEN row[k] ELSE <<>>

\* A slip: itertools.zip_longest(header, row, fillvalue="").
ZipLongest(header, row) ==
    [k \in 1..Max(Len(header), Len(row)) |-> <<CellOr(header, k), CellOr(row, k)>>]

\* zip(header, row)
Zip(header, row) ==
    [k \in 1..Min(Len(header), Len(row)) |-> <<header[k], row[k]>>]

H2024 == <<"2", "0", "2", "4">>
HYear2024 == <<"y", "e", "a", "r", "_", "2", "0", "2", "4">>
H2023 == <<"2", "0", "2", "3">>
HAsRestated2023 == <<"a", "s", " ", "r", "e", "s", "t", "a", "t", "e", "d", " ",
                     "2", "0", "2", "3">>
HYear2023 == <<"y", "e", "a", "r", "_", "2", "0", "2", "3">>
HNote == <<"n", "o", "t", "e">>

\* A slip: `if "name" not in entry`, the first unrecognized column is kept.
EntryStepFirstWins(entry, h, v) ==
    LET h_low == Strip(Lower(h)) IN
    IF h_low \in {H2024, HYear2024}
    THEN DictSet(entry, "year_2024", clean_number(v))
    ELSE IF h_low \in {H2023, HAsRestated2023, HYear2023}
    THEN DictSet(entry, "year_2023", clean_number(v))
    ELSE IF h_low = HNote
    THEN DictSet(entry, "note", IF v # <<>> THEN clean_number(v) ELSE NoneVal)
    ELSE IF "name" \in DOMAIN entry THEN entry
    ELSE DictSet(entry, "name", StrVal(v))

\* The body of `for h, v in zip(header, row)` (lines 102-111).
EntryStep(entry, h, v) ==
    LET h_low == Strip(Lower(h)) IN
    IF h_low \in {H2024, HYear2024}
    THEN DictSet(entry, "year_2024", clean_number(v))
    ELSE IF h_low \in {H2023, HAsRestated2023, HYear2023}
    THEN DictSet(entry, "year_2023", clean_number(v))
    ELSE IF h_low = HNote
    THEN DictSet(entry, "note", IF v # <<>> THEN clean_number(v) ELSE NoneVal)
    ELSE DictSet(entry, "name", StrVal(v))

RECURSIVE EntryLoop(_, _, _)
EntryLoop(pairs, k, entry) ==
    IF k > Len(pairs) THEN entry
    ELSE EntryLoop(pairs, k + 1, EntryStep(entry, pairs[k][1], pairs[k][2]))

\* entry = {} ... objects.append(entry), for one row (lines 100-113)
RowEntry(header, row) == EntryLoop(Zip(header, row), 1, EmptyDict)

\* A slip: `for row in matrix` under `if not matrix`, the header row is data too.
html_table_to_objects_header_as_data(tbl) ==
    LET matrix == html_table_to_matrix(tbl) IN
    IF matrix = <<>> THEN <<>>
    ELSE [r \in 1..Len(matrix) |-> RowEntry(matrix[1], matrix[r])]

\* A slip: the records are keyed off the deduplicated header row.
html_table_to_objects_dedup(tbl) ==
    LET matrix == html_table_to_matrix(tbl) IN
    IF matrix = <<>> \/ Len(matrix) < 2 THEN <<>>
    ELSE [r \in 1..(Len(matrix) - 1) |->
             RowEntry(fix_duplicate_headers(matrix[1]), matrix[r + 1])]

html_table_to_objects(tbl) ==
    LET matrix == html_table_to_matrix(tbl) IN
    IF matrix = <<>> \/ Len(matrix) < 2 THEN <<>>
    ELSE [r \in 1..(Len(matrix) - 1) |-> RowEntry(matrix[1], matrix[r + 1])]

---------------------------------------------------------------------------
(* One page's markup and its split (src/app.py 294-302).                   *)
(* chunk.content is the sequence of its top-level nodes: a text node or a  *)
(* <table> element.                                                        *)

TextNode(s) == [kind |-> "text", text |-> s]
TableNode(rows) == [kind |-> "table", rows |-> rows]
IsTableNode(n) == n.kind = "table"
IsTextNode(n) == n.kind = "text"

\* soup.find_all("table")
RECURSIVE FindAllTables(_)
FindAllTables(markup) ==
    IF markup = <<>> THEN <<>>
    ELSE IF IsTableNode(Head(markup))
    THEN <<Head(markup).rows>> \o FindAllTables(Tail(markup))
    ELSE FindAllTables(Tail(markup))

\* soup.get_text("\n", strip=True) once every table is extracted: the
\* stripped, non-empty texts joined by "\n".
RECURSIVE JoinLines(_)
JoinLines(texts) ==
    IF texts = <<>> THEN <<>>
    ELSE IF Len(texts) = 1 THEN texts[1]
    ELSE texts[1] \o <<"\n">> \o JoinLines(Tail(texts))
RECURSIVE StrippedTexts(_)
StrippedTexts(markup) ==
    IF markup = <<>> THEN <<>>
    ELSE IF IsTextNode(Head(markup)) /\ Strip(Head(markup).text) # <<>>
    THEN <<Strip(Head(markup).text)>> \o StrippedTexts(Tail(markup))
    ELSE StrippedTexts(Tail(markup))
GetTextWithoutTables(markup) == JoinLines(StrippedTexts(markup))

---------------------------------------------------------------------------
(* The exports (src/app.py 304-326).  full_text_output is a string; in     *)
(* full_text_with_tables a string segment or tabulate's grid is one        *)
(* element each.                                                           *)

NewLines == <<"\n", "\n">>
\* f"\n\n===== PAGE {i} =====\n\n{text_plain}\n\n"
PageBlock(n, text_plain) ==
    NewLines \o <<"=", "=", "=", "=", "=", " ", "P", "A", "G", "E", " ">>
        \o IntToStr(n) \o <<" ", "=", "=", "=", "=", "=">> \o NewLines
        \o text_plain \o NewLines
StrSeg(s) == [kind |-> "str", s |-> s]
\* tabulate(rows, headers=headers, tablefmt="grid")
Tabulate(rows, hdrs) == [kind |-> "grid", headers |-> hdrs, rows |-> rows]

\* A slip: the grid is titled with the raw header row.
TableStepRawHeaders(acc, page_no, t_index, tbl) ==
    LET matrix == html_table_to_matrix(tbl) IN
    IF matrix = <<>> \/ Len(matrix) < 2 THEN acc
    ELSE LET hdrs == matrix[1]
             rows == Tail(matrix)
         IN  [ with_tables |-> acc.with_tables \o
                               <<Tabulate(rows, hdrs), StrSeg(NewLines)>>,
               json |-> Append(acc.json, [page |-> page_no, table_index |-> t_index,
                                          rows |-> html_table_to_objects(tbl)]),
               page_tables |-> Append(acc.page_tables,
                                      [headers |-> hdrs, rows |-> rows]) ]

\* The body of `for t_index, table in enumerate(tables, start=1)` (310-326).
TableStep(acc, page_no, t_index, tbl) ==
    LET matrix == html_table_to_matrix(tbl) IN
    IF matrix = <<>> \/ Len(matrix) < 2 THEN acc
    ELSE LET hdrs == fix_duplicate_headers(matrix[1])
             rows == Tail(matrix)
         IN  [ with_tables |-> acc.with_tables \o
                               <<Tabulate(rows, hdrs), StrSeg(NewLines)>>,
               json |-> Append(acc.json, [page |-> page_no, table_index |-> t_index,
                                          rows |-> html_table_to_objects(tbl)]),
               page_tables |-> Append(acc.page_tables,
                                      [headers |-> hdrs, rows |-> rows]) ]

RECURSIVE TableLoop(_, _, _, _)
TableLoop(acc, page_no, t_index, tables) ==
    IF t_index > Len(tables) THEN acc
    ELSE TableLoop(TableStep(acc, page_no, t_index, tables[t_index]),
                   page_no, t_index + 1, tables)

---------------------------------------------------------------------------
(* The remote parser's answers and the temporary files.                    *)

ParseStatus == {"SUCCESSFUL", "FAILURE", "PENDING"}

TblItems ==
    << << <<"I", "t", "e", "m">>, <<"I", "t", "e", "m">>, <<" ">> >>,
       << <<"x">>, <<"1">>, <<"2">> >> >>
TblHeaderOnly == << <<H2024, <<"N", "o", "t", "e">> >> >>
TblYears ==
    << << <<"L", "i", "n", "e">>, H2024, <<"N", "o", "t", "e">> >>,
       << <<"R", "e", "v">>, <<"4", ",", "9", "4", "7">>, <<"1">> >>,
       << <<"C", "o", "s", "t">>, <<"n", "/", "a">> >> >>
TblEmpty == <<>>

ChunkContents ==
    { << TextNode(<<" ", "I", "n", "t", "r", "o", " ">>), TableNode(TblItems),
         TextNode(<<"E", "n", "d">>) >>,
      << TableNode(TblHeaderOnly), TableNode(TblYears), TableNode(TblEmpty),
         TableNode(TblItems) >>,
      << TextNode(<<"T", "e", "x", "t">>) >> }

ParseResults == [status : ParseStatus, chunks : SeqsUpTo(ChunkContents, MaxPages)]

TempPaths == {"tmpA.pdf", "tmpB.pdf"}

---------------------------------------------------------------------------
(* The script (src/app.py 123-347), one rerun after another.               *)

\* st.session_state["results"], None while the key is unset
CachedResults(ss) == IF "results" \in DOMAIN ss THEN ss["results"] ELSE None
\* truth value of the cached dict: None is false, the four-key dict is true
Truthy(o) == ~IsNone(o)

StError(msg) == [kind |-> "error", msg |-> msg]
Rendering(r) == [kind |-> "render", results |-> r]

\* `not API_KEY or API_KEY.startswith("YOUR_REAL")` of the literal at line 27
ApiKeyMissing == FALSE

\* A rerun starts: the widgets take their values, the names of the last run
\* are gone, and lines 123-124 put the "results" key in place.
Rerun ==
    /\ pc = "done"
    /\ \E rb \in BOOLEAN, up \in {None, Some("pdf")} :
          /\ run_button' = rb
          /\ uploaded_pdf' = up
    /\ state_at_start' = session_state
    /\ session_state' = IF "results" \notin DOMAIN session_state
                        THEN DictSet(session_state, "results", None)
                        ELSE session_state
    /\ temp_pdf_path' = None /\ file_id' = None /\ result' = None
    /\ i' = 0
    /\ full_text_output' = <<>> /\ full_text_with_tables' = <<>>
    /\ all_tables_json' = <<>> /\ pages' = <<>>
    /\ shown' = <<>> /\ outcome' = "" /\ calls' = {}
    /\ pc' = "gate"
    /\ UNCHANGED <<files, helperVars>>

buildVars == <<i, full_text_output, full_text_with_tables, all_tables_json, pages>>
widgetVars == <<run_button, uploaded_pdf, state_at_start>>

\* Lines 215-216, the condition true: render_results(cached) returns.
RenderCached ==
    /\ pc = "gate"
    /\ Truthy(CachedResults(session_state)) /\ ~run_button
    /\ shown' = Append(shown, Rendering(The(CachedResults(session_state))))
    /\ pc' = "main"
    /\ UNCHANGED <<session_state, files, temp_pdf_path, file_id, result, outcome,
                   calls, buildVars, widgetVars, helperVars>>

\* Lines 215-216, the condition true: render_results(cached) raises.
RenderCachedRaises ==
    /\ pc = "gate"
    /\ Truthy(CachedResults(session_state)) /\ ~run_button
    /\ shown' = Append(shown, Rendering(The(CachedResults(session_state))))
    /\ outcome' = "exception"
    /\ pc' = "done"
    /\ UNCHANGED <<session_state, files, temp_pdf_path, file_id, result,
                   calls, buildVars, widgetVars, helperVars>>

\* Lines 215-216, the condition false.
SkipCached ==
    /\ pc = "gate"
    /\ ~(Truthy(CachedResults(session_state)) /\ ~run_button)
    /\ pc' = "main"
    /\ UNCHANGED <<session_state, files, temp_pdf_path, file_id, result, outcome,
                   calls, shown, buildVars, widgetVars, helperVars>>

\* A slip: `if run_button or uploaded_pdf:`.
MainGateOnUpload ==
    /\ pc = "main"
    /\ IF ~(run_button \/ Truthy(uploaded_pdf))
       THEN pc' = "done" /\ outcome' = "end" /\ shown' = shown
       ELSE IF IsNone(uploaded_pdf)
       THEN /\ shown' = Append(shown, StError("Please upload a PDF file."))
            /\ pc' = "done" /\ outcome' = "stop"
       ELSE pc' = "stage" /\ outcome' = outcome /\ shown' = shown
    /\ UNCHANGED <<session_state, files, temp_pdf_path, file_id, result,
                   calls, buildVars, widgetVars, helperVars>>

\* Lines 224-232: `if run_button:` and the two checks that st.stop().
MainGate ==
    /\ pc = "main"
    /\ IF ~run_button
       THEN pc' = "done" /\ outcome' = "end" /\ shown' = shown
       ELSE IF ApiKeyMissing
       THEN /\ shown' = Append(shown, StError("Please enter a valid API key"))
            /\ pc' = "done" /\ outcome' = "stop"
       ELSE IF IsNone(uploaded_pdf)
       THEN /\ shown' = Append(shown, StError("Please upload a PDF file."))
            /\ pc' = "done" /\ outcome' = "stop"
       ELSE pc' = "stage" /\ outcome' = outcome /\ shown' = shown
    /\ UNCHANGED <<session_state, files, temp_pdf_path, file_id, result,
                   calls, buildVars, widgetVars, helperVars>>

\* Lines 235-237: NamedTemporaryFile(delete=False) makes a file of a fresh
\* name, the bytes are written, tmp.name is kept.
StageTempFile ==
    /\ pc = "stage"
    /\ \E p \in TempPaths \ files :
          /\ files' = files \cup {p}
          /\ temp_pdf_path' = Some(p)
    /\ pc' = "upload"
    /\ UNCHANGED <<session_state, file_id, result, outcome, calls, shown,
                   buildVars, widgetVars, helperVars>>

\* Lines 235-236: the file is made and tmp.write raises, outside the try.
StageWriteRaises ==
    /\ pc = "stage"
    /\ \E p \in TempPaths \ files : files' = files \cup {p}
    /\ outcome' = "exception"
    /\ pc' = "done"
    /\ UNCHANGED <<session_state, temp_pdf_path, file_id, result, calls, shown,
                   buildVars, widgetVars, helperVars>>

\* Lines 243-245: upload_file_v2 returns the file id.
Upload ==
    /\ pc = "upload"
    /\ calls' = calls \cup {"upload"}
    /\ file_id' = Some("file_id")
    /\ pc' = "parse"
    /\ UNCHANGED <<session_state, files, temp_pdf_path, result, outcome, shown,
                   buildVars, widgetVars, helperVars>>

\* Lines 243-248: upload_file_v2 raises; st.error, st.stop.
UploadFails ==
    /\ pc = "upload"
    /\ calls' = calls \cup {"upload"}
    /\ shown' = Append(shown, StError("Upload failed"))
    /\ outcome' = "stop"
    /\ pc' = "finally"
    /\ UNCHANGED <<session_state, files, temp_pdf_path, file_id, result,
                   buildVars, widgetVars, helperVars>>

\* Lines 254-278: parse_and_wait returns.
Parse ==
    /\ pc = "parse"
    /\ calls' = calls \cup {"parse"}
    /\ \E res \in ParseResults : result' = Some(res)
    /\ pc' = "status"
    /\ UNCHANGED <<session_state, files, temp_pdf_path, file_id, outcome, shown,
                   buildVars, widgetVars, helperVars>>

\* Lines 254-278: parse_and_wait raises.
ParseRaises ==
    /\ pc = "parse"
    /\ calls' = calls \cup {"parse"}
    /\ outcome' = "exception"
    /\ pc' = "finally"
    /\ UNCHANGED <<session_state, files, temp_pdf_path, file_id, result, shown,
                   buildVars, widgetVars, helperVars>>

\* A slip: st.error without st.stop, the build goes on.
CheckStatusNoStop ==
    /\ pc = "status"
    /\ IF The(result).status # "SUCCESSFUL"
       THEN shown' = Append(shown, StError("Parsing failed"))
       ELSE shown' = shown
    /\ pc' = "build"
    /\ UNCHANGED <<session_state, files, temp_pdf_path, file_id, result, outcome,
                   calls, buildVars, widgetVars, helperVars>>

\* Lines 280-291: a status other than SUCCESSFUL is reported and stops the
\* run; otherwise the build starts from empty structures.
CheckStatus ==
    /\ pc = "status"
    /\ IF The(result).status # "SUCCESSFUL"
       THEN /\ shown' = Append(shown, StError("Parsing failed"))
            /\ outcome' = "stop"
            /\ pc' = "finally"
       ELSE /\ shown' = shown
            /\ outcome' = outcome
            /\ pc' = "build"
    /\ UNCHANGED <<session_state, files, temp_pdf_path, file_id, result,
                   calls, buildVars, widgetVars, helperVars>>

\* Lines 293-333: one turn of the page loop.
BuildPage ==
    /\ pc = "build"
    /\ i < Len(The(result).chunks)
    /\ LET page_no == i + 1
           raw_markup == The(result).chunks[page_no]
           tables == FindAllTables(raw_markup)
           text_plain == GetTextWithoutTables(raw_markup)
           acc == TableLoop([ with_tables |->
                                  Append(full_text_with_tables,
                                         StrSeg(PageBlock(page_no, text_plain))),
                              json |-> all_tables_json,
                              page_tables |-> <<>> ],
                            page_no, 1, tables)
       IN  /\ i' = page_no
           /\ full_text_output' = full_text_output \o PageBlock(page_no, text_plain)
           /\ full_text_with_tables' = acc.with_tables
           /\ all_tables_json' = acc.json
           /\ pages' = Append(pages, [ page_number |-> page_no,
                                       text_display |-> raw_markup,
                                       text_plain |-> text_plain,
                                       tables |-> acc.page_tables ])
    /\ UNCHANGED <<pc, session_state, files, temp_pdf_path, file_id, result,
                   outcome, calls, shown, widgetVars, helperVars>>

\* Lines 293-333: the parser or tabulate raises on a page.
BuildRaises ==
    /\ pc = "build"
    /\ i < Len(The(result).chunks)
    /\ outcome' = "exception"
    /\ pc' = "finally"
    /\ UNCHANGED <<session_state, files, temp_pdf_path, file_id, result,
                   calls, shown, buildVars, widgetVars, helperVars>>

\* Lines 336-341: the result is cached.
CacheResults ==
    /\ pc = "build"
    /\ i = Len(The(result).chunks)
    /\ session_state' =
          DictSet(session_state, "results",
                  Some([ pages |-> pages,
                         full_text_output |-> full_text_output,
                         full_text_with_tables |-> full_text_with_tables,
                         all_tables_json |-> all_tables_json ]))
    /\ pc' = "render"
    /\ UNCHANGED <<files, temp_pdf_path, file_id, result, outcome, calls, shown,
                   buildVars, widgetVars, helperVars>>

\* Line 343: render_results returns.
RenderResults ==
    /\ pc = "render"
    /\ shown' = Append(shown, Rendering(The(CachedResults(session_state))))
    /\ outcome' = "end"
    /\ pc' = "finally"
    /\ UNCHANGED <<session_state, files, temp_pdf_path, file_id, result,
                   calls, buildVars, widgetVars, helperVars>>

\* Line 343: render_results raises.
RenderResultsRaises ==
    /\ pc = "render"
    /\ shown' = Append(shown, Rendering(The(CachedResults(session_state))))
    /\ outcome' = "exception"
    /\ pc' = "finally"
    /\ UNCHANGED <<session_state, files, temp_pdf_path, file_id, result,
                   calls, buildVars, widgetVars, helperVars>>

\* A slip: the removal at the end of the try block, not in a finally.
CleanupOnSuccessOnly ==
    /\ pc = "finally"
    /\ files' = IF outcome = "end" THEN files \ {The(temp_pdf_path)} ELSE files
    /\ pc' = "done"
    /\ UNCHANGED <<session_state, temp_pdf_path, file_id, result, outcome, calls,
                   shown, buildVars, widgetVars, helperVars>>

\* Lines 345-347: the finally block removes the temporary file.
Finally ==
    /\ pc = "finally"
    /\ files' = IF The(temp_pdf_path) \in files
                THEN files \ {The(temp_pdf_path)}
                ELSE files
    /\ pc' = "done"
    /\ UNCHANGED <<session_state, temp_pdf_path, file_id, result, outcome, calls,
                   shown, buildVars, widgetVars, helperVars>>

---------------------------------------------------------------------------
(* The inputs the helper functions are applied to.                         *)

\* Header texts: plain, blank, whitespace-only, and texts that equal a
\* generated suffix form or the blank key.
HeaderTexts ==
    { <<"a">>, <<"a", "_", "2">>, <<"b">>, <<>>, <<" ">>,
      <<"c", "o", "l">>, <<"c", "o", "l", "_", "2">> }

\* Raw <th> texts of a header row.
HeaderCells ==
    { H2024,
      <<"Y", "e", "a", "r", "_", "2", "0", "2", "4">>,
      H2023,
      <<"A", "s", " ", "R", "e", "s", "t", "a", "t", "e", "d", " ", "2", "0", "2", "3">>,
      HYear2023,
      <<" ", "N", "o", "t", "e", "\n">>,
      <<"L", "i", "n", "e", " ", "I", "t", "e", "m">>,
      <<>> }

\* Raw <td> texts of data rows, of 0 to 3 cells.
DataRows ==
    { <<>>,
      << <<"R", "e", "v", "e", "n", "u", "e">> >>,
      << <<"4", ",", "9", "4", "7", ",", "8", "0", "7">>, <<>> >>,
      << <<" ", "1", "2", " ">>, <<"n", "/", "a">> >>,
      << <<"1", ",", "2", "x">>, <<"-", "1", "_", "0">>, <<"C", "o", "s", "t">> >> }

\* A <table>: no <tr> at all, or a header <tr> and data <tr>s.
Tables ==
    {<<>>} \cup
    { <<h>> \o d : h \in SeqsUpTo(HeaderCells, MaxCols),
                   d \in SeqsUpTo(DataRows, MaxDataRows) }

---------------------------------------------------------------------------
(* The helper functions called on their own.                               *)

HelpersIdle ==
    /\ called = ""
    /\ headers = <<>> /\ fixed = <<>>
    /\ table = <<>> /\ objects = <<>>

RunIdle ==
    /\ pc = "done"
    /\ session_state = EmptyDict
    /\ run_button = FALSE
    /\ uploaded_pdf = None
    /\ files = {}
    /\ temp_pdf_path = None
    /\ file_id = None
    /\ result = None
    /\ i = 0
    /\ full_text_output = <<>>
    /\ full_text_with_tables = <<>>
    /\ all_tables_json = <<>>
    /\ pages = <<>>
    /\ shown = <<>>
    /\ outcome = ""
    /\ state_at_start = EmptyDict
    /\ calls = {}

InitHeaders ==
    /\ RunIdle
    /\ called = ""
    /\ headers \in SeqsUpTo(HeaderTexts, MaxHeaders)
    /\ fixed = <<>>
    /\ table = <<>> /\ objects = <<>>

CallFixDuplicateHeaders ==
    /\ called = ""
    /\ called' = "fix_duplicate_headers"
    /\ fixed' = fix_duplicate_headers(headers)
    /\ UNCHANGED <<headers, table, objects, runVars>>

SpecHeaders == InitHeaders /\ [][CallFixDuplicateHeaders]_vars

InitRecords ==
    /\ RunIdle
    /\ called = ""
    /\ headers = <<>> /\ fixed = <<>>
    /\ table \in Tables
    /\ objects = <<>>

CallHtmlTableToObjects ==
    /\ called = ""
    /\ called' = "html_table_to_objects"
    /\ objects' = html_table_to_objects(table)
    /\ UNCHANGED <<headers, fixed, table, runVars>>

SpecRecords == InitRecords /\ [][CallHtmlTableToObjects]_vars

---------------------------------------------------------------------------
(* Properties of fix_duplicate_headers, under SpecHeaders.                 *)

FixCalled == called = "fix_duplicate_headers"
IsBlank(h) == \A k \in DOMAIN h : h[k] \in Whitespace
ColKey == <<"c", "o", "l">>
BaseKey(h) == IF IsBlank(h) THEN ColKey ELSE h
\* How many of the first k headers have the base key of header k.
Occurrence(hs, k) ==
    Cardinality({j \in 1..k : BaseKey(hs[j]) = BaseKey(hs[k])})
\* K in decimal, for the counts below 100 a header list can reach here.
Decimal(n) ==
    IF n < 10 THEN <<Digits[n + 1]>>
    ELSE <<Digits[(n \div 10) + 1], Digits[(n % 10) + 1]>>

\* C1: the list returned by fix_duplicate_headers has the length and order
\* of its argument and its elements are pairwise different, also when a
\* header equals a generated suffix form such as "a_2" or equals "col".
C1_PairwiseUnique ==
    FixCalled =>
        /\ Len(fixed) = Len(headers)
        /\ \A a, b \in DOMAIN fixed : a # b => fixed[a] # fixed[b]

\* C7: scanning left to right with fresh counters, a blank or
\* whitespace-only header has base key "col" and any other header is its own
\* base key; the first occurrence of a base key is returned unchanged and its
\* K-th occurrence (K >= 2) is returned as the key, "_" and K in decimal, the
\* count being kept per base key.
C7_KthOccurrenceSuffixed ==
    FixCalled =>
        /\ Len(fixed) = Len(headers)
        /\ \A k \in DOMAIN headers :
              LET K == Occurrence(headers, k) IN
              fixed[k] = IF K = 1 THEN BaseKey(headers[k])
                         ELSE BaseKey(headers[k]) \o <<"_">> \o Decimal(K)

\* Two blank headers and two "a" headers, interleaved: each second
\* occurrence carries its own count.
C7_Witness ==
    /\ FixCalled
    /\ \E k, m \in DOMAIN headers :
          /\ headers[k] = <<" ">> /\ fixed[k] = <<"c", "o", "l", "_", "2">>
          /\ headers[m] = <<"a">> /\ fixed[m] = <<"a", "_", "2">>
          /\ \E j \in 1..(k - 1) : headers[j] = <<>> /\ fixed[j] = ColKey

---------------------------------------------------------------------------
(* Properties of html_table_to_objects, under SpecRecords.                 *)

ObjectsCalled == called = "html_table_to_objects"
Matrix == html_table_to_matrix(table)
HeaderRow == Matrix[1]
DataRow(r) == Matrix[r + 1]
Paired(r) == 1..Min(Len(HeaderRow), Len(DataRow(r)))

\* The field a header selects.
FieldOf(h) ==
    LET t == Strip(Lower(h)) IN
    CASE t \in {H2024, HYear2024} -> "year_2024"
      [] t \in {H2023, HAsRestated2023, HYear2023} -> "year_2023"
      [] t = HNote -> "note"
      [] OTHER -> "name"

\* The value of a string of decimal digits, from its last digit back.
RECURSIVE DecimalValue(_)
DecimalValue(ds) ==
    IF ds = <<>> THEN 0
    ELSE DigitValue(ds[Len(ds)]) + 10 * DecimalValue(SubSeq(ds, 1, Len(ds) - 1))
\* Whether text s is an integer literal with value n.
Denotes(s, n) ==
    LET t == Strip(s)
        signed == t # <<>> /\ t[1] \in {"+", "-"}
        body == IF signed THEN Tail(t) ELSE t
        ds == SelectSeq(body, IsDigit)
    IN  /\ body # <<>>
        /\ IsDigit(body[1]) /\ IsDigit(body[Len(body)])
        /\ \A k \in DOMAIN body :
              \/ IsDigit(body[k])
              \/ body[k] = "_" /\ IsDigit(body[k - 1]) /\ IsDigit(body[k + 1])
        /\ n = IF signed /\ t[1] = "-" THEN 0 - DecimalValue(ds) ELSE DecimalValue(ds)
NotComma(c) == c # ","
\* Coercion: every comma removed, the integer if the rest is one, else the
\* cell as it was.
IsCoerced(val, cell) ==
    LET rest == SelectSeq(cell, NotComma)
        ints == {n \in {DecimalValue(SelectSeq(rest, IsDigit)),
                        0 - DecimalValue(SelectSeq(rest, IsDigit))} : Denotes(rest, n)}
    IN  IF ints # {} THEN \E n \in ints : val = IntVal(n)
        ELSE val = StrVal(cell)
\* What a header of field f makes of a cell.
IsFieldValue(f, val, cell) ==
    CASE f \in {"year_2024", "year_2023"} -> IsCoerced(val, cell)
      [] f = "note" -> IF cell # <<>> THEN IsCoerced(val, cell) ELSE val = NoneVal
      [] OTHER -> val = StrVal(cell)
\* The right-most paired position whose header selects field f.
LastOf(r, f) ==
    CHOOSE k \in Paired(r) :
        /\ FieldOf(HeaderRow[k]) = f
        /\ \A j \in Paired(r) : FieldOf(HeaderRow[j]) = f => j <= k

\* C2: for a table of at least 2 rows there is one record per data row, in
\* row order, keyed off the raw header row: each paired header, lower-cased
\* and trimmed, selects year_2024, year_2023, note or name, and sets it to the
\* coerced cell, to null for an empty note cell, or to the raw cell for name.
C2_RecordsFollowRawHeader ==
    (ObjectsCalled /\ Len(table) >= 2) =>
        /\ Len(objects) = Len(table) - 1
        /\ \A r \in DOMAIN objects :
              \A f \in {"year_2024", "year_2023", "note", "name"} :
                 IF \E k \in Paired(r) : FieldOf(HeaderRow[k]) = f
                 THEN /\ f \in DOMAIN objects[r]
                      /\ IsFieldValue(f, objects[r][f], DataRow(r)[LastOf(r, f)])
                 ELSE f \notin DOMAIN objects[r]

\* "4,947,807" under 2024 beside an empty note cell, and "1,2x" under 2024.
C2_Witness ==
    /\ ObjectsCalled
    /\ Len(objects) = 2
    /\ \E r, q \in DOMAIN objects :
          /\ objects[r] = [year_2024 |-> IntVal(4947807), note |-> NoneVal]
          /\ "year_2024" \in DOMAIN objects[q]
          /\ objects[q]["year_2024"] = StrVal(<<"1", ",", "2", "x">>)

\* C6: a table of 0 or 1 rows gives the empty record list.
C6_ShortTableNoRecords ==
    (ObjectsCalled /\ Len(table) < 2) => objects = <<>>

\* A header row of two cells and no data row.
C6_Witness ==
    ObjectsCalled /\ Len(table) = 1 /\ Len(table[1]) = 2 /\ objects = <<>>

Unrecognized(r) == {k \in Paired(r) : FieldOf(HeaderRow[k]) = "name"}
RightMost(S) == CHOOSE k \in S : \A j \in S : j <= k
LeftMost(S) == CHOOSE k \in S : \A j \in S : k <= j

\* C9: when two or more paired headers of a row are unrecognized, the
\* record's name is the cell of the right-most of them.
C9_LastUnrecognizedWins ==
    ObjectsCalled =>
        \A r \in DOMAIN objects :
            Cardinality(Unrecognized(r)) >= 2 =>
                /\ "name" \in DOMAIN objects[r]
                /\ objects[r]["name"] = StrVal(DataRow(r)[RightMost(Unrecognized(r))])

\* Two unrecognized columns holding different cells.
C9_Witness ==
    /\ ObjectsCalled
    /\ \E r \in DOMAIN objects :
          /\ Cardinality(Unrecognized(r)) >= 2
          /\ DataRow(r)[LeftMost(Unrecognized(r))]
                # DataRow(r)[RightMost(Unrecognized(r))]
          /\ objects[r]["name"] = StrVal(DataRow(r)[RightMost(Unrecognized(r))])

\* C10: only positions 1..min(H, R) of a header row of H cells and a data
\* row of R cells are paired: the record's fields are those selected by
\* headers at paired positions, each set from a paired cell, and the cells
\* beyond the shorter of the two are dropped.
C10_OnlyPairedPositions ==
    ObjectsCalled =>
        \A r \in DOMAIN objects :
            /\ DOMAIN objects[r] = {FieldOf(HeaderRow[k]) : k \in Paired(r)}
            /\ \A f \in DOMAIN objects[r] :
                  \E k \in Paired(r) :
                      /\ FieldOf(HeaderRow[k]) = f
                      /\ IsFieldValue(f, objects[r][f], DataRow(r)[k])

\* One data row shorter than the header row, whose unmatched header's field
\* stays unset, and one data row longer than it.
C10_Witness ==
    /\ ObjectsCalled
    /\ \E r, q \in DOMAIN objects :
          /\ 1 <= Len(DataRow(r)) /\ Len(DataRow(r)) < Len(HeaderRow)
          /\ FieldOf(HeaderRow[Len(HeaderRow)]) \notin DOMAIN objects[r]
          /\ Len(DataRow(q)) > Len(HeaderRow)
          /\ objects[q] # EmptyDict

---------------------------------------------------------------------------
(* The session: the script run again and again.                            *)

Init == RunIdle /\ HelpersIdle

Next ==
    \/ Rerun
    \/ RenderCached
    \/ RenderCachedRaises
    \/ SkipCached
    \/ MainGate
    \/ StageTempFile
    \/ StageWriteRaises
    \/ Upload
    \/ UploadFails
    \/ Parse
    \/ ParseRaises
    \/ CheckStatus
    \/ BuildPage
    \/ BuildRaises
    \/ CacheResults
    \/ RenderResults
    \/ RenderResultsRaises
    \/ Finally

Spec == Init /\ [][Next]_vars

---------------------------------------------------------------------------
(* Properties of the script, under Spec.                                   *)

RunEnded == pc = "done" /\ outcome # ""
Cached == CachedResults(session_state)
CachedAtStart == CachedResults(state_at_start)

\* C3: a run that staged the uploaded bytes to a temporary file has ended
\* only with that file gone, however it ended.
C3_TempFileGoneWhenRunEnds ==
    (RunEnded /\ Truthy(temp_pdf_path)) => The(temp_pdf_path) \notin files

\* A run that staged the file, split a page and then ended by an exception.
C3_Witness ==
    /\ RunEnded /\ Truthy(temp_pdf_path)
    /\ outcome = "exception" /\ i >= 1
    /\ The(temp_pdf_path) \notin files

ParseNotSuccessful == Truthy(result) /\ The(result).status # "SUCCESSFUL"

\* C4: once the parse result's status is seen not to be SUCCESSFUL, the run
\* has reported it and stopped: no page is split, no table normalized, no
\* export or JSON entry built, and the cached result is as the run found it.
C4_NoCoreAfterFailedParse ==
    (ParseNotSuccessful /\ pc # "status") =>
        /\ pc \in {"finally", "done"}
        /\ outcome = "stop"
        /\ shown # <<>> /\ shown[Len(shown)] = StError("Parsing failed")
        /\ i = 0 /\ pages = <<>>
        /\ full_text_output = <<>> /\ full_text_with_tables = <<>>
        /\ all_tables_json = <<>>
        /\ Cached = CachedAtStart

\* A failed parse of a document with pages, in a session that holds an
\* earlier run's result.
C4_Witness ==
    /\ RunEnded /\ ParseNotSuccessful
    /\ The(result).status = "FAILURE" /\ The(result).chunks # <<>>
    /\ Truthy(Cached) /\ Cached = CachedAtStart

\* C5: the cached result differs from the one a rerun found only in a
\* rerun with the run button; a rerun without it makes no upload and no
\* parse call and, when a result is cached, renders that result and nothing
\* else.
C5_CacheChangesOnlyOnRun ==
    /\ Cached # CachedAtStart => run_button
    /\ ~run_button => calls = {}
    /\ (pc \in {"main", "done"} /\ ~run_button /\ Truthy(CachedAtStart)) =>
           shown = <<Rendering(The(CachedAtStart))>>

\* A rerun without the run button, with a file in the uploader, that has
\* rendered the cached result and ended.
C5_Witness ==
    /\ RunEnded /\ outcome = "end"
    /\ ~run_button /\ Truthy(uploaded_pdf)
    /\ Truthy(Cached)
    /\ shown = <<Rendering(The(Cached))>>
    /\ calls = {}

IsGrid(seg) == seg.kind = "grid"
IsPageBlock(seg) == seg.kind = "str" /\ seg.s # NewLines
\* Where the n-th page's block stands in an export.
PageStart(segs, n) ==
    CHOOSE k \in DOMAIN segs :
        /\ IsPageBlock(segs[k])
        /\ Cardinality({j \in 1..k : IsPageBlock(segs[j])}) = n
PageCount(segs) == Cardinality({k \in DOMAIN segs : IsPageBlock(segs[k])})
\* The grids between the n-th page's block and the next page's.
GridsOfPage(segs, n) ==
    LET last == IF n < PageCount(segs) THEN PageStart(segs, n + 1) - 1 ELSE Len(segs)
    IN  SelectSeq(SubSeq(segs, PageStart(segs, n) + 1, last), IsGrid)
TableNodes(markup) == SelectSeq(markup, IsTableNode)
HasDataRows(node) == Len(node.rows) >= 2
\* The grid of a table: deduplicated headers as titles, the data rows below.
GridOf(node) ==
    LET matrix == html_table_to_matrix(node.rows) IN
    Tabulate(Tail(matrix), fix_duplicate_headers(matrix[1]))

\* C8 as stated: every <table> of a page is appended as a grid, so a page
\* has as many grids as <table> elements.
C8_EveryTableHasGrid ==
    Truthy(Cached) =>
        LET res == The(Cached) IN
        \A n \in DOMAIN res.pages :
            Len(GridsOfPage(res.full_text_with_tables, n))
                = Len(TableNodes(res.pages[n].text_display))

\* C8 amended: after a page's marker and plain text, the page's tables of
\* at least 2 rows are appended as grids (deduplicated headers as titles,
\* data rows below), in table order; a table of fewer than 2 rows has none.
C8_TablesWithDataRowsHaveGrids ==
    Truthy(Cached) =>
        LET res == The(Cached)
            segs == res.full_text_with_tables
        IN  /\ PageCount(segs) = Len(res.pages)
            /\ \A n \in DOMAIN res.pages :
                  LET with_rows == SelectSeq(TableNodes(res.pages[n].text_display),
                                             HasDataRows)
                  IN  /\ segs[PageStart(segs, n)]
                            = StrSeg(PageBlock(n, res.pages[n].text_plain))
                      /\ GridsOfPage(segs, n)
                            = [k \in DOMAIN with_rows |-> GridOf(with_rows[k])]

\* A second page of four tables, two of them with data rows, the first of
\* the two grids titled with a repaired header row.
C8_Witness ==
    /\ Truthy(Cached)
    /\ LET res == The(Cached) IN
       /\ Len(res.pages) = 2
       /\ Len(TableNodes(res.pages[2].text_display)) = 4
       /\ Len(GridsOfPage(res.full_text_with_tables, 2)) = 2
       /\ \E g \in {GridsOfPage(res.full_text_with_tables, 2)[2]} :
             g.headers = << <<"I", "t", "e", "m">>, <<"I", "t", "e", "m", "_", "2">>,
                            <<"c", "o", "l">> >>

===========================================================================
